---------------------------- MODULE Spec2Model ----------------------------
(***************************************************************************)
(* A model of the two HTTP clients of axios-request-ts:                    *)
(*   - "HttpRequest": the class of src/src/main.ts (request/response       *)
(*     interceptors, withAxiosResponse escape hatch, createAbortController)*)
(*   - "request.ts":  the axios instance of src/src/api/request.ts and its *)
(*     exported get/post/patch/put/del functions.                          *)
(* A call is sent, may be aborted while in flight, is settled by the       *)
(* transport (a response or an error), upon which the client's response   *)
(* interceptor runs as one step, and is finally observed by its awaiting   *)
(* caller.  Calls are independent of each other: while one call is settled *)
(* and its caller has not resumed yet, other calls are sent, aborted,      *)
(* settled and resumed.                                                    *)
(*                                                                         *)
(* Spec has the calls of both clients and everything the transport can     *)
(* answer; HttpSpec has the calls of HttpRequest, every fulfilled response *)
(* and one error per layer of its rejected handler; FairSpec has the calls *)
(* of both clients, one outcome per path, and the fairness of the          *)
(* transport and of the microtask queue.                                   *)
(*                                                                         *)
(* The source's Chinese message literals are written here as ASCII         *)
(* glosses that keep the "(status)" suffix of the original literal; the    *)
(* source line of each literal is given where it is defined.               *)
(***************************************************************************)
EXTENDS Integers, Sequences, FiniteSets, TLC

\* Number of calls the application issues.
MaxCalls == 2
\* Envelope payloads range over undefined and the numbers 1..MaxData.
MaxData == 1

Calls == 1..MaxCalls

-----------------------------------------------------------------------------
(***************************************************************************)
(* JavaScript values.  Primitives share one record shape; an envelope      *)
(* object and a transport response have shapes of their own.               *)
(***************************************************************************)
Undef == [t |-> "undefined", n |-> 0, s |-> ""]
Null == [t |-> "null", n |-> 0, s |-> ""]
Num(k) == [t |-> "number", n |-> k, s |-> ""]
Str(x) == [t |-> "string", n |-> 0, s |-> x]
Bool(b) == [t |-> "boolean", n |-> IF b THEN 1 ELSE 0, s |-> ""]
\* A Blob instance: an object with none of the envelope's properties.
Blob == [t |-> "blob", n |-> 0, s |-> "%PDF-1.7"]

\* An object literal { success, code, message, data }; a property that is
\* missing from the object reads as undefined.
Env(success, code, message, data) ==
  [t |-> "object", success |-> success, code |-> code,
   message |-> message, data |-> data]

\* ToBoolean.
Truthy(v) ==
  CASE v.t = "undefined" -> FALSE
    [] v.t = "null" -> FALSE
    [] v.t = "boolean" -> v.n = 1
    [] v.t = "number" -> v.n # 0
    [] v.t = "string" -> v.s # ""
    [] OTHER -> TRUE

\* Whether reading a property of v, or destructuring v, throws a TypeError.
Nullish(v) == v.t \in {"undefined", "null"}

\* v[f] for a non-nullish v and f one of success, code, message, data.
Get(v, f) == IF v.t = "object" THEN v[f] ELSE Undef

\* String(v), as a template literal `${v}` converts a primitive.
Tpl(v) ==
  CASE v.t = "undefined" -> "undefined"
    [] v.t = "null" -> "null"
    [] v.t = "boolean" -> (IF v.n = 1 THEN "true" ELSE "false")
    [] v.t = "number" -> ToString(v.n)
    [] v.t = "string" -> v.s
    [] OTHER -> "[object Object]"

\* The template `${a}(${b})`.
Paren(a, b) == a \o "(" \o b \o ")"

\* a || b.
Or(a, b) == IF Truthy(a) THEN a ELSE b

-----------------------------------------------------------------------------
(***************************************************************************)
(* What the transport hands to the response interceptors.                  *)
(***************************************************************************)
\* An AxiosResponse.  responseType is response.config.responseType, the
\* request option that makes the transport produce a Blob.
Resp(status, statusText, contentType, responseType, body) ==
  [t |-> "response", status |-> status, statusText |-> statusText,
   contentType |-> contentType, responseType |-> responseType, body |-> body]

NoResp == [t |-> "none"]

\* An error the promise chain rejects with.
Err(name, message, code, isAxiosError, response) ==
  [t |-> "error", name |-> name, message |-> message, code |-> code,
   isAxiosError |-> isAxiosError, response |-> response]

\* Error.prototype.toString, as `${error}` converts an error.
ErrToString(e) ==
  IF Truthy(e.message) THEN e.name \o ": " \o Tpl(e.message) ELSE e.name

\* String.prototype.includes('application/json') over the content types of
\* the model.
JsonTypes == {"application/json", "application/json; charset=utf-8"}
IncludesJson(ct) == ct.t = "string" /\ ct.s \in JsonTypes

\* One UI notification or console line: the sink called and its argument.
Event(sink, arg) == [sink |-> sink, arg |-> arg]

\* How a handler ends: the value it returns (the call's promise resolves to
\* it) or the error it throws (the promise rejects), the events it emitted
\* in order, and whether it deleted localStorage.access_token.
Returns(v, ev, clear) == [st |-> "resolved", v |-> v, events |-> ev, clear |-> clear]
Throws(e, ev) == [st |-> "rejected", v |-> e, events |-> ev, clear |-> FALSE]

TypeErrorOf(what) == Err("TypeError", Str(what), Undef, FALSE, NoResp)

-----------------------------------------------------------------------------
(***************************************************************************)
(* HttpRequest (src/src/main.ts): the response interceptors.               *)
(***************************************************************************)
\* main.ts:112, the literal of the branch commented "on an error success
\* must be false; if it is true, that is a BUG".
BugMessage == "You found a BUG, contact the administrator!(BUG)"

\* main.ts:117-157, the switch over error.response.status.
StatusMessage(status, statusText) ==
  CASE status = 400 -> "Bad request(400)"
    [] status = 401 -> "Unauthorized, please log in again(401)"
    [] status = 403 -> "Access denied(403)"
    [] status = 404 -> "The requested resource does not exist(404)"
    [] status = 405 -> "Request method not allowed(405)"
    [] status = 408 -> "Request timeout(408)"
    [] status = 500 -> "Internal server error(500)"
    [] status = 501 -> "Service not implemented(501)"
    [] status = 502 -> "Gateway error(502)"
    [] status = 503 -> "Service unavailable(503)"
    [] status = 504 -> "Gateway timeout(504)"
    [] status = 505 -> "HTTP version not supported(505)"
    [] OTHER -> Paren(statusText, ToString(status))

\* main.ts:79-87, the notification of a parsed envelope.
EnvelopeEvents(body) ==
  IF ~Truthy(Get(body, "success"))
  THEN <<Event("msg.error",
               Str(Paren(Tpl(Get(body, "message")), Tpl(Get(body, "code")))))>>
  ELSE IF Truthy(Get(body, "message"))
       THEN <<Event("msg.info", Get(body, "message"))>>
       ELSE <<>>

\* A variant of the fulfilled handler that returns the response of a flagged
\* call before the envelope is looked at.
MainFulfilled_FlagReturnsEarly(response, flag) ==
  IF flag
  THEN Returns(response, <<>>, FALSE)
  ELSE IF ~IncludesJson(response.contentType)
       THEN Returns(response.body, <<>>, FALSE)
       ELSE IF Nullish(response.body)
            THEN Throws(TypeErrorOf("Cannot destructure property 'success'"), <<>>)
            ELSE Returns(Get(response.body, "data"),
                         EnvelopeEvents(response.body), FALSE)

\* main.ts:69-96, the fulfilled handler; flag is config.withAxiosResponse.
MainFulfilled(response, flag) ==
  IF ~IncludesJson(response.contentType)
  THEN Returns(IF flag THEN response ELSE response.body, <<>>, FALSE)
  ELSE IF Nullish(response.body)
       THEN Throws(TypeErrorOf("Cannot destructure property 'success'"), <<>>)
       ELSE Returns(IF flag THEN response ELSE Get(response.body, "data"),
                    EnvelopeEvents(response.body), FALSE)

\* main.ts:99-166, the five layers that choose the message.
MainErrorMessage(error) ==
  IF error.response.t = "response" /\ Truthy(error.response.body)
  THEN LET body == error.response.body
       IN IF Get(body, "success") = Bool(FALSE)
          THEN Paren(Tpl(Get(body, "message")), Tpl(Get(body, "code")))
          ELSE BugMessage
  ELSE IF error.response.t = "response"
       THEN StatusMessage(error.response.status, error.response.statusText)
       ELSE IF Truthy(error.message) \/ Truthy(error.code)
            THEN Paren(Tpl(error.message), Tpl(error.code))
            ELSE Paren(ErrToString(error), "???")

\* A variant of the rejected handler that ends with Promise.reject(error).
MainRejected_Rethrows(error) ==
  Throws(error,
         <<Event("msg.error", Str(MainErrorMessage(error))),
           Event("console.error", Str(ErrToString(error)))>>)

\* main.ts:98-172, the rejected handler: notify, log, return undefined.
MainRejected(error) ==
  Returns(Undef,
          <<Event("msg.error", Str(MainErrorMessage(error))),
            Event("console.error", Str(ErrToString(error)))>>,
          FALSE)

-----------------------------------------------------------------------------
(***************************************************************************)
(* request.ts (src/src/api/request.ts): the response interceptors.         *)
(***************************************************************************)
\* request.ts:41 and 43, the two lookup tables, both empty: every lookup
\* yields undefined.
serverCodeMessageMap(code) == Undef
httpCodeMessgeMap(status) == Undef

\* code >= 200 && code < 300, false for a code that is not a number.
CodeIsOk(code) == code.t = "number" /\ code.n >= 200 /\ code.n < 300

\* request.ts:46-58, the fulfilled handler.
LegacyFulfilled(response) ==
  IF response.responseType = "blob"
  THEN Returns(response.body, <<>>, FALSE)
  ELSE IF Nullish(response.body)
       THEN Throws(TypeErrorOf("Cannot destructure property 'message'"), <<>>)
       ELSE LET msg == Get(response.body, "message")
                code == Get(response.body, "code")
                ev == IF CodeIsOk(code)
                      THEN IF Truthy(msg)
                           THEN <<Event("message.success", msg)>>
                           ELSE <<>>
                      ELSE <<Event("message.error", serverCodeMessageMap(code))>>
            IN Returns(Get(response.body, "data"), ev, FALSE)

\* request.ts:60-88, the rejected handler.
LegacyRejected(error) ==
  IF ~error.isAxiosError \/ error.response.t # "response"
  THEN Returns(Undef, <<>>, FALSE)
  ELSE LET status == error.response.status
           statusText == error.response.statusText
           data == error.response.body
       IN IF ~Truthy(data)
          THEN Returns(Undef,
                       <<Event("message.error",
                               Or(httpCodeMessgeMap(status),
                                  Str(ToString(status) \o " " \o statusText)))>>,
                       FALSE)
          ELSE LET tip == Event("message.error",
                                Or(serverCodeMessageMap(Get(data, "code")),
                                   Or(Get(data, "message"),
                                      Str("Unknown Server Error."))))
               IN Returns(Undef, <<tip>>, status = 401)

-----------------------------------------------------------------------------
\* The response interceptor pair of a client applied to what the transport
\* settled with: a response (fulfilled) or an error (rejected).
Intercept(client, flag, outcome) ==
  IF client = "HttpRequest"
  THEN IF outcome.t = "response"
       THEN MainFulfilled(outcome, flag)
       ELSE MainRejected(outcome)
  ELSE IF outcome.t = "response"
       THEN LegacyFulfilled(outcome)
       ELSE LegacyRejected(outcome)

-----------------------------------------------------------------------------
(***************************************************************************)
(* The environment: what a server and the network can answer.              *)
(***************************************************************************)
Datas == {Undef} \cup {Num(d) : d \in 1..MaxData}
Messages == {Undef, Str("server says")}

\* Bodies that are envelopes (the backend's own code is 200 or 1001
\* whatever success says), and one object that has no success property.
Envelopes ==
  {Env(Bool(b), Num(200), m, d) : b \in BOOLEAN, m \in Messages, d \in Datas}
    \cup {Env(Bool(b), Num(1001), Str("server says"), Num(1)) : b \in BOOLEAN}
    \cup {Env(Bool(TRUE), Num(200), Str(""), Undef),
          Env(Undef, Undef, Str("server says"), Undef)}

HtmlBody == Str("<html>oops</html>")
EmptyBody == Str("")

\* Responses the transport fulfils with (validateStatus: 2xx).
FulfilledResponses ==
  {Resp(200, "OK", Str("application/json"), "json", b) :
      b \in Envelopes \cup {Null, EmptyBody}}
    \cup {Resp(200, "OK", Str("application/json; charset=utf-8"), "json",
               Env(Bool(TRUE), Num(200), Str("server says"), Num(1))),
          Resp(200, "OK", Str("text/html"), "json", HtmlBody),
          Resp(200, "OK", Str("application/octet-stream"), "blob", Blob),
          Resp(204, "No Content", Undef, "json", EmptyBody)}

MappedStatuses == {400, 401, 403, 404, 405, 408, 500, 501, 502, 503, 504, 505}
UnmappedStatuses == {418}
ReasonPhrase(status) ==
  CASE status = 400 -> "Bad Request"
    [] status = 401 -> "Unauthorized"
    [] status = 403 -> "Forbidden"
    [] status = 404 -> "Not Found"
    [] status = 405 -> "Method Not Allowed"
    [] status = 408 -> "Request Timeout"
    [] status = 418 -> "I'm a teapot"
    [] status = 500 -> "Internal Server Error"
    [] status = 501 -> "Not Implemented"
    [] status = 502 -> "Bad Gateway"
    [] status = 503 -> "Service Unavailable"
    [] status = 504 -> "Gateway Timeout"
    [] status = 505 -> "HTTP Version Not Supported"
    [] OTHER -> ""

\* The AxiosError of a response outside 2xx.
StatusError(status, body) ==
  Err("AxiosError",
      Str("Request failed with status code " \o ToString(status)),
      Str(IF status < 500 THEN "ERR_BAD_REQUEST" ELSE "ERR_BAD_RESPONSE"),
      TRUE,
      Resp(status, ReasonPhrase(status), Str("text/html"), "json", body))

ErrorBodies ==
  {HtmlBody, Blob,
   Env(Bool(FALSE), Num(1001), Str("server says"), Undef),
   Env(Bool(FALSE), Undef, Undef, Undef),
   Env(Bool(TRUE), Num(200), Str("server says"), Num(1)),
   Env(Undef, Undef, Str("server says"), Undef)}

ResponseErrors ==
  {StatusError(st, EmptyBody) : st \in MappedStatuses \cup UnmappedStatuses}
    \cup {StatusError(401, b) : b \in ErrorBodies}
    \cup {StatusError(st, b) : st \in {500, 418},
             b \in {HtmlBody, Env(Bool(FALSE), Num(1001), Str("server says"), Undef)}}

NetworkError == Err("AxiosError", Str("Network Error"), Str("ERR_NETWORK"), TRUE, NoResp)
\* The timeout of main.ts:229; request.ts configures none.
TimeoutError ==
  Err("AxiosError", Str("timeout of 30000ms exceeded"), Str("ECONNABORTED"), TRUE, NoResp)
\* Thrown while the request is being prepared, before anything is sent.
PreSendError == Err("TypeError", Str("Invalid URL"), Undef, FALSE, NoResp)
\* An error that carries neither a message nor a code.
BareError == Err("Error", Str(""), Undef, FALSE, NoResp)
\* What the transport rejects with once the AbortController's signal fires.
CanceledError == Err("CanceledError", Str("canceled"), Str("ERR_CANCELED"), TRUE, NoResp)

NoResponseErrors(client) ==
  {NetworkError, PreSendError, BareError}
    \cup IF client = "HttpRequest" THEN {TimeoutError} ELSE {}

\* Everything the transport can settle a call of this client with.
Outcomes(client, aborted) ==
  IF aborted
  THEN {CanceledError}
  ELSE FulfilledResponses \cup ResponseErrors \cup NoResponseErrors(client)

-----------------------------------------------------------------------------
(***************************************************************************)
(* The state: the calls of the application and whether localStorage holds   *)
(* an access_token (the user is logged in when the model starts).          *)
(***************************************************************************)
VARIABLES calls, access_token

vars == <<calls, access_token>>

Clients == {"HttpRequest", "request.ts"}

None == [t |-> "none"]
Pending == [st |-> "pending", v |-> None, events |-> <<>>, clear |-> FALSE]

IdleCall ==
  [pc |-> "idle", client |-> "", flag |-> FALSE,
   aborted |-> FALSE, outcome |-> None, result |-> Pending]

\* A call whose caller has taken the result.
DoneCall == [IdleCall EXCEPT !.pc = "done"]

Init ==
  /\ calls = [c \in Calls |-> IdleCall]
  /\ access_token = TRUE

\* A public method is called: get/post/put/patch/delete/postForm/putForm/
\* patchForm/request of HttpRequest, get/post/patch/put/del of request.ts.
\* Each hands its parameters to the axios instance; the request interceptor
\* returns the config unchanged.  withAxiosResponse is an option of
\* HttpRequest calls, and each HttpRequest call is given the signal of a
\* controller of its own, made by createAbortController (main.ts:180-182).
Send(c, client, flag) ==
  /\ calls[c].pc = "idle"
  /\ client = "request.ts" => ~flag
  /\ calls' = [calls EXCEPT ![c] =
       [IdleCall EXCEPT !.pc = "inflight", !.client = client, !.flag = flag]]
  /\ UNCHANGED access_token

\* controller.abort() on the controller whose signal the call was given.
Abort(c) ==
  /\ calls[c].pc = "inflight"
  /\ calls[c].client = "HttpRequest"
  /\ ~calls[c].aborted
  /\ calls' = [calls EXCEPT ![c].aborted = TRUE]
  /\ UNCHANGED access_token

\* The transport settles the call and the response interceptor runs.  The
\* caller awaiting the call resumes some microtask ticks later (Resume); the
\* interceptors of other calls, and whatever callers that resume first do
\* (send, abort), come in between.
Settle(c, outcome) ==
  /\ calls[c].pc = "inflight"
  /\ outcome \in Outcomes(calls[c].client, calls[c].aborted)
  /\ LET r == Intercept(calls[c].client, calls[c].flag, outcome)
     IN /\ calls' = [calls EXCEPT ![c].pc = "settled",
                                  ![c].outcome = outcome,
                                  ![c].result = r]
        /\ access_token' = IF r.clear THEN FALSE ELSE access_token

Respond(c) == \E outcome \in Outcomes(calls[c].client, calls[c].aborted) : Settle(c, outcome)

\* The awaiting caller resumes with the result (main.ts:4-9).
Resume(c) ==
  /\ calls[c].pc = "settled"
  /\ calls' = [calls EXCEPT ![c] = DoneCall]
  /\ UNCHANGED access_token

Next ==
  \E c \in Calls :
    \/ \E client \in Clients, flag \in BOOLEAN : Send(c, client, flag)
    \/ Abort(c)
    \/ Respond(c)
    \/ Resume(c)

Spec == Init /\ [][Next]_vars

\* One error for each layer of the rejected handler of HttpRequest
\* (main.ts:104-163): an envelope in the error response, a status, a message
\* and code, none of them.
OnePerLayer ==
  {StatusError(401, Env(Bool(FALSE), Num(1001), Str("server says"), Undef)),
   StatusError(500, EmptyBody),
   TimeoutError,
   BareError}

\* Every response the transport fulfils with, and one error per layer.
HttpOutcomes(aborted) ==
  IF aborted THEN {CanceledError} ELSE FulfilledResponses \cup OnePerLayer

RespondHttp(c) ==
  \E outcome \in HttpOutcomes(calls[c].aborted) : Settle(c, outcome)

\* The calls of HttpRequest alone.
HttpNext ==
  \E c \in Calls :
    \/ \E flag \in BOOLEAN : Send(c, "HttpRequest", flag)
    \/ Abort(c)
    \/ RespondHttp(c)
    \/ Resume(c)

HttpSpec == Init /\ [][HttpNext]_vars

\* One outcome for each path through the interceptors: an envelope, a JSON
\* body the handler cannot destructure, a body that is not JSON, a status
\* outside 2xx, no response at all; an aborted call is cancelled.
OnePerPath(client, aborted) ==
  IF aborted
  THEN {CanceledError}
  ELSE {Resp(200, "OK", Str("application/json"), "json",
             Env(Bool(TRUE), Num(200), Str("server says"), Num(1))),
        Resp(200, "OK", Str("application/json"), "json", Null),
        Resp(200, "OK", Str("text/html"), "json", HtmlBody),
        StatusError(500, EmptyBody),
        IF client = "HttpRequest" THEN TimeoutError ELSE NetworkError}

RespondOnePerPath(c) ==
  \E outcome \in OnePerPath(calls[c].client, calls[c].aborted) : Settle(c, outcome)

\* Calls of both clients, each answered with one outcome per path.
OnePerPathNext ==
  \E c \in Calls :
    \/ \E client \in Clients, flag \in BOOLEAN : Send(c, client, flag)
    \/ Abort(c)
    \/ RespondOnePerPath(c)
    \/ Resume(c)

\* The transport of HttpRequest settles every call (at the latest by its
\* timeout, at once when aborted), and the microtask queue always drains.
FairSpec ==
  /\ Init /\ [][OnePerPathNext]_vars
  /\ \A c \in Calls : WF_vars(Resume(c))
  /\ \A c \in Calls : WF_vars(calls[c].client = "HttpRequest" /\ RespondOnePerPath(c))

-----------------------------------------------------------------------------
(***************************************************************************)
(* Vocabulary of the properties.                                           *)
(***************************************************************************)
Settled(c) == calls[c].pc = "settled"
Outcome(c) == calls[c].outcome
Result(c) == calls[c].result

ErrorSinks == {"msg.error", "message.error"}
InfoSinks == {"msg.info", "message.success"}

\* The user-visible notifications of a call, in order (console.error is a
\* diagnostic log, not a notification).
Notes(c) == SelectSeq(Result(c).events, LAMBDA e : e.sink \in ErrorSinks \cup InfoSinks)
ErrorNotes(c) == SelectSeq(Result(c).events, LAMBDA e : e.sink \in ErrorSinks)
InfoNotes(c) == SelectSeq(Result(c).events, LAMBDA e : e.sink \in InfoSinks)

\* The text is made of the two parts, in either order, joined and framed by
\* punctuation only.
Glue == {"", " ", "(", ")", ": ", ", "}
ContainsBoth(arg, a, b) ==
  /\ arg.t = "string"
  /\ \E x \in Glue, y \in Glue, z \in Glue :
       \/ arg.s = x \o a \o y \o b \o z
       \/ arg.s = x \o b \o y \o a \o z

ResolvedTo(c, v) == Result(c).st = "resolved" /\ Result(c).v = v

\* The transport fulfilled with a response that is structured data.
JsonFulfilled(c) == Outcome(c).t = "response" /\ IncludesJson(Outcome(c).contentType)
\* The transport rejected with an error that carries an HTTP response.
FailedWithResponse(c) == Outcome(c).t = "error" /\ Outcome(c).response.t = "response"

\* The body the server sent, on either path.
Body(c) ==
  IF Outcome(c).t = "response" THEN Outcome(c).body ELSE Outcome(c).response.body
IsEnvelope(b) == b.t = "object" /\ b.success.t = "boolean"

-----------------------------------------------------------------------------
\* C1: every settled call resolved (never rejected), and every call whose
\* transport failed resolved to undefined after at least one error
\* notification.
C1_NeverRejects ==
  \A c \in Calls :
    Settled(c) =>
      /\ Result(c).st = "resolved"
      /\ Outcome(c).t = "error" => Result(c).v = Undef /\ Len(ErrorNotes(c)) >= 1

\* C2: a call answered by an envelope with success: false, under a 2xx or
\* a non-2xx status, resolved to undefined and emitted exactly one
\* notification, an error made of the envelope's message and code.
C2_BusinessFailure ==
  \A c \in Calls :
    (/\ Settled(c)
     /\ JsonFulfilled(c) \/ FailedWithResponse(c)
     /\ IsEnvelope(Body(c))
     /\ Body(c).success = Bool(FALSE))
    => /\ ResolvedTo(c, Undef)
       /\ Len(Notes(c)) = 1
       /\ Len(ErrorNotes(c)) = 1
       /\ ContainsBoth(ErrorNotes(c)[1].arg, Tpl(Body(c).message), Tpl(Body(c).code))

\* The statement of C3 for the calls of the given clients: a call (made
\* without withAxiosResponse) answered by a 2xx JSON envelope with
\* success: true resolved to the envelope's data; it emitted exactly one
\* informational notification carrying message when message is present, and
\* no notification at all when message is absent.
C3_SuccessFor(clients) ==
  \A c \in Calls :
    (/\ Settled(c)
     /\ calls[c].client \in clients
     /\ ~calls[c].flag
     /\ JsonFulfilled(c)
     /\ IsEnvelope(Body(c))
     /\ Body(c).success = Bool(TRUE))
    => /\ ResolvedTo(c, Body(c).data)
       /\ Truthy(Body(c).message) =>
            /\ Len(Notes(c)) = 1
            /\ Len(InfoNotes(c)) = 1
            /\ InfoNotes(c)[1].arg = Body(c).message
       /\ Body(c).message = Undef => Notes(c) = <<>>

\* C3: every call of either client that is answered by a 2xx JSON envelope
\* with success: true resolves to data, with one informational notification
\* when message is present and none when it is absent.
C3_Success == C3_SuccessFor(Clients)

\* The statement of C4 for the calls of the given clients: a call (made
\* without withAxiosResponse) answered by a 2xx response that is not
\* structured data resolved to the raw body, and no notification or log was
\* emitted.
C4_RawBodyFor(clients) ==
  \A c \in Calls :
    (/\ Settled(c)
     /\ calls[c].client \in clients
     /\ ~calls[c].flag
     /\ Outcome(c).t = "response"
     /\ ~IncludesJson(Outcome(c).contentType))
    => /\ ResolvedTo(c, Outcome(c).body)
       /\ Result(c).events = <<>>

\* C4: every call of either client that is answered by a response that is
\* not structured data resolves to the raw body and emits nothing.
C4_RawBody == C4_RawBodyFor(Clients)

\* C5: after a call is answered with HTTP 401, with or without a body, the
\* stored access token is gone and an error notification was emitted.
C5_TokenClearedOn401 ==
  \A c \in Calls :
    (Settled(c) /\ FailedWithResponse(c) /\ Outcome(c).response.status = 401)
    => ~access_token /\ Len(ErrorNotes(c)) = 1

\* The token changes only in a step that settles a call answered with 401
\* (the part of C5 about every other status).
TokenKeptUnless401 ==
  [][access_token' # access_token =>
       \E c \in Calls :
         /\ calls[c].pc = "inflight"
         /\ calls'[c].pc = "settled"
         /\ calls'[c].outcome.t = "error"
         /\ calls'[c].outcome.response.t = "response"
         /\ calls'[c].outcome.response.status = 401]_vars

\* The statement of C6 for the calls of the given clients: a call that
\* failed by a network error or a timeout, with no HTTP response, resolved
\* to undefined and emitted exactly one notification, an error made of the
\* transport's error message and error code, not a string of the status
\* table.
C6_NetworkFailureFor(clients) ==
  \A c \in Calls :
    (/\ Settled(c)
     /\ calls[c].client \in clients
     /\ Outcome(c) \in {NetworkError, TimeoutError})
    => /\ ResolvedTo(c, Undef)
       /\ Len(Notes(c)) = 1
       /\ Len(ErrorNotes(c)) = 1
       /\ ContainsBoth(ErrorNotes(c)[1].arg, Tpl(Outcome(c).message), Tpl(Outcome(c).code))
       /\ ErrorNotes(c)[1].arg.s \notin
            {StatusMessage(st, "") : st \in MappedStatuses}

\* C6: every call of either client that fails with no HTTP response
\* resolves to undefined after exactly one error notification made of the
\* transport's error message and code.
C6_NetworkFailure == C6_NetworkFailureFor(Clients)

\* C8: a call that failed with an HTTP response whose body is not an
\* envelope (no body, or a body without a success field) emitted the error
\* notification of the status table: the fixed string of a mapped status,
\* "{statusText}({status})" of an unmapped one.
C8_StatusTable ==
  \A c \in Calls :
    (Settled(c) /\ FailedWithResponse(c) /\ ~IsEnvelope(Body(c)))
    => /\ Len(ErrorNotes(c)) = 1
       /\ LET r == Outcome(c).response
              text == ErrorNotes(c)[1].arg
          IN /\ text.t = "string"
             /\ r.status \in MappedStatuses =>
                  text.s = StatusMessage(r.status, r.statusText)
             /\ r.status \notin MappedStatuses =>
                  text.s = r.statusText \o "(" \o ToString(r.status) \o ")"

\* The statement of C9 for the calls of the given clients: a call that
\* failed with an HTTP response whose body is an envelope emitted one error
\* notification decided by the body alone (message and code when success
\* is false, the unexpected-state message when success is true), resolved
\* to undefined, and the status changed nothing.
C9_EnvelopeFirstFor(clients) ==
  \A c \in Calls :
    (/\ Settled(c)
     /\ calls[c].client \in clients
     /\ FailedWithResponse(c)
     /\ IsEnvelope(Body(c)))
    => /\ ResolvedTo(c, Undef)
       /\ Len(ErrorNotes(c)) = 1
       /\ Len(Notes(c)) = 1
       /\ Body(c).success = Bool(FALSE) =>
            ContainsBoth(ErrorNotes(c)[1].arg, Tpl(Body(c).message), Tpl(Body(c).code))
       /\ Body(c).success = Bool(TRUE) =>
            ErrorNotes(c)[1].arg = Str(BugMessage)
       /\ ~Result(c).clear

\* C9: for every call of either client an envelope in the error response
\* decides the notification, the status is not consulted, and the call
\* resolves to undefined.
C9_EnvelopeFirst == C9_EnvelopeFirstFor(Clients)

\* C3, C4, C6 and C9 restricted to the calls of HttpRequest, where each of
\* them is an invariant.
C3_HttpRequest == C3_SuccessFor({"HttpRequest"})
C4_HttpRequest == C4_RawBodyFor({"HttpRequest"})
C6_HttpRequest == C6_NetworkFailureFor({"HttpRequest"})
C9_HttpRequest == C9_EnvelopeFirstFor({"HttpRequest"})

-----------------------------------------------------------------------------
(***************************************************************************)
(* The escape hatch of HttpRequest (C7).                                   *)
(***************************************************************************)
\* Two calls of HttpRequest that the transport settled with the same
\* outcome, c made with withAxiosResponse and d without.
SameResponse(c, d) ==
  /\ Settled(c) /\ calls[c].client = "HttpRequest" /\ calls[c].flag
  /\ Settled(d) /\ calls[d].client = "HttpRequest" /\ ~calls[d].flag
  /\ Outcome(c) = Outcome(d)

\* The data nested in a returned response: data.data of a JSON response,
\* data of any other.
Nested(r) == IF IncludesJson(r.contentType) THEN Get(r.body, "data") ELSE r.body

\* C7 as stated: on every path, failure path included, a flagged call that
\* resolves returns a response object whose nested data equals what the
\* unflagged call returns, with the same notifications.
C7_RoundTripOnEveryPath ==
  \A c \in Calls, d \in Calls :
    (SameResponse(c, d) /\ Result(c).st = "resolved") =>
      /\ Result(c).v.t = "response"
      /\ Nested(Result(c).v) = Result(d).v
      /\ Result(c).events = Result(d).events

\* C7 (amended): a flagged call emits the events of the unflagged call and
\* settles the same way; where the unflagged call resolves on the success
\* path, the flagged call resolves to the transport response, whose nested
\* data is the unflagged result; where the handler throws (a JSON body of
\* null) both reject; on the failure path both resolve to undefined and no
\* response object is returned.
C7_EscapeHatch ==
  \A c \in Calls, d \in Calls :
    SameResponse(c, d) =>
      /\ Result(c).events = Result(d).events
      /\ Result(c).st = Result(d).st
      /\ (Outcome(c).t = "response" /\ Result(c).st = "resolved") =>
           /\ Result(c).v = Outcome(c)
           /\ Nested(Result(c).v) = Result(d).v
      /\ (Outcome(c).t = "response" /\ Result(c).st = "rejected") =>
           /\ JsonFulfilled(c) /\ Nullish(Body(c))
           /\ Result(c).v = Result(d).v
      /\ Outcome(c).t = "error" =>
           /\ ResolvedTo(c, Undef)
           /\ ResolvedTo(d, Undef)

\* A flagged call came back with the whole response of a JSON envelope
\* after its notification was shown, and the unflagged call given the same
\* response came back with the data of the envelope.
C7_Witness ==
  \E c \in Calls, d \in Calls :
    /\ SameResponse(c, d)
    /\ JsonFulfilled(c)
    /\ Result(c).v = Outcome(c)
    /\ Len(Notes(c)) = 1
    /\ Result(d).v = Num(1)

-----------------------------------------------------------------------------
(***************************************************************************)
(* Cancellation (C10).                                                     *)
(***************************************************************************)
AbortedInFlight(c) == calls[c].pc = "inflight" /\ calls[c].aborted
AbortedSettled(c) == Settled(c) /\ calls[c].aborted

\* An aborted call went through the failure path: undefined, one error
\* notification, then the log of the original error, nothing else.
ThroughFailurePath(c) ==
  /\ ResolvedTo(c, Undef)
  /\ Len(Result(c).events) = 2
  /\ Result(c).events[1].sink = "msg.error"
  /\ ContainsBoth(Result(c).events[1].arg, Tpl(Outcome(c).message), Tpl(Outcome(c).code))
  /\ Result(c).events[2] = Event("console.error", Str(ErrToString(Outcome(c))))
  /\ InfoNotes(c) = <<>>

\* C10: once a call in flight is aborted it eventually settles, and it
\* settles through the failure path: resolved to undefined, exactly one
\* error notification and then the log of the error, no success-path
\* notification; the abort changes no other call.
C10_Cancellation ==
  /\ [](\A c \in Calls : AbortedSettled(c) => ThroughFailurePath(c))
  /\ \A c \in Calls : AbortedInFlight(c) ~> (AbortedSettled(c) /\ ResolvedTo(c, Undef))
  /\ [][\A c \in Calls :
          (~calls[c].aborted /\ calls'[c].aborted) =>
            \A d \in Calls \ {c} : calls'[d] = calls[d]]_vars

\* An aborted call has settled while another call is still in flight.
C10_Witness ==
  \E c \in Calls, d \in Calls :
    /\ c # d
    /\ AbortedSettled(c)
    /\ ThroughFailurePath(c)
    /\ calls[d].pc = "inflight"
    /\ ~calls[d].aborted
=============================================================================
